---- MODULE Spec2Model ----
(***************************************************************************)
(* Competitive auto-encoder of src/src/neurology.rs: WeightHolder,         *)
(* NeuronicInput, CompAENeuron and CompAENetwork, driven either by the     *)
(* training harness (Spec: every pixel of an image is loaded once, pixel   *)
(* (0,0) first, then perform_adjustment) or by an arbitrary caller of the  *)
(* public interface (SpecAPI: any load_val coordinates, in any order).     *)
(*                                                                         *)
(* f32 values are modelled in fixed point: the integer v stands for        *)
(* v / SCALE, products and quotients are rounded to the nearest unit, and  *)
(* NaN is a distinguished value that every operation propagates and every  *)
(* comparison rejects, as IEEE-754 does.                                   *)
(***************************************************************************)
EXTENDS Integers, FiniteSets, Sequences, TLC

\* ------------------------------------------------------------------ bounds
MaxNeurons == 2
MaxImages == 2
MaxCalls == 3

\* ------------------------------------------------------- program constants
\* side of the square image (28 in mccm; scaled down)
MNIST_SIDE == 2
MNIST_AREA == MNIST_SIDE * MNIST_SIDE

\* ------------------------------------------------------------ f32 numbers
SCALE == 10000
NaN == 0 - 2000000000
ONE == SCALE

IsNaN(a) == a = NaN

\* a / b for b > 0, rounded to the nearest unit
RoundDiv(a, b) ==
    LET q == a \div b
        r == a % b
    IN IF 2 * r >= b THEN q + 1 ELSE q

FAdd(a, b) == IF IsNaN(a) \/ IsNaN(b) THEN NaN ELSE a + b
FSub(a, b) == IF IsNaN(a) \/ IsNaN(b) THEN NaN ELSE a - b
FMul(a, b) == IF IsNaN(a) \/ IsNaN(b) THEN NaN ELSE RoundDiv(a * b, SCALE)
\* 0.0 / 0.0 is NaN; a divisor of 0 only ever meets a dividend of 0 here
\* (the weight sum is 0 only when every weight, hence every product, is 0)
FDiv(a, b) ==
    IF IsNaN(a) \/ IsNaN(b) \/ b = 0 THEN NaN
    ELSE IF b > 0 THEN RoundDiv(a * SCALE, b) ELSE RoundDiv((0 - a) * SCALE, 0 - b)
FLt(a, b) == ~IsNaN(a) /\ ~IsNaN(b) /\ a < b

RECURSIVE SqrtSearch(_, _, _)
SqrtSearch(n, lo, hi) ==
    IF lo >= hi THEN lo
    ELSE LET mid == (lo + hi + 1) \div 2
         IN IF mid * mid <= n THEN SqrtSearch(n, mid, hi) ELSE SqrtSearch(n, lo, mid - 1)

\* f32::sqrt, correctly rounded; the square root of a negative number is NaN
FSqrt(a) ==
    IF IsNaN(a) \/ a < 0 THEN NaN
    ELSE LET n == a * SCALE
             r == SqrtSearch(n, 0, 46339)
         IN IF n > (r * r) + r THEN r + 1 ELSE r

\* ------------------------------------------------------------------- state
VARIABLES
    num_neurons,                  \* CompAENetwork.neurons.len()
    gen_weights,                  \* the weights gen_weight produced at construction
    learning_constant,            \* CompAENeuron.learning_constant
    weights,                      \* CompAENeuron.weights, per neuron
    current_em,                   \* CompAENeuron.current_em, per neuron
    measure,                      \* NeuronicInput.measure, per input
    total_weighted_prediction,    \* NeuronicInput.total_weighted_prediction
    current_reconstruction_error, \* NeuronicInput.current_reconstruction_error
    total_weights,                \* WeightHolder.total_weights
    pc,                           \* position of the caller / of perform_adjustment
    idx,                          \* loop index of the running sweep
    predicted,                    \* neurons whose run_prediction_phase ran in this call
    cached,                       \* inputs whose cache_reconstruction_error ran in this call
    learned,                      \* neurons whose run_learning_phase ran in this call
    loaded,                       \* inputs loaded since the last perform_adjustment
    clears,                       \* WeightHolder.clear() calls since the last perform_adjustment
    last_xy,                      \* coordinates of the latest load_val call
    images,                       \* completed perform_adjustment calls
    calls                         \* interface calls made by the arbitrary caller

vars == <<num_neurons, gen_weights, learning_constant, weights, current_em, measure,
          total_weighted_prediction, current_reconstruction_error, total_weights,
          pc, idx, predicted, cached, learned, loaded, clears, last_xy,
          images, calls>>

Inputs == 0 .. (MNIST_AREA - 1)
Neurons == 1 .. num_neurons
NoXY == <<MNIST_SIDE + 1, MNIST_SIDE + 1>>

\* ------------------------------------------------------ construction inputs
\* learning rates: LEARNING_CONST of main.rs and the rate of the documented scenario
LearningConstants == {ONE \div 1000, ONE \div 10}
LowWeight == ONE \div 4
HighWeight == 2 * ONE
PixelValues == {0, ONE}

\* rows produced by gen_weight: strictly positive, HighWeight on a prefix
InitRows ==
    {[i \in Inputs |-> IF i < k THEN HighWeight ELSE LowWeight] :
        k \in {0, MNIST_AREA - 1, MNIST_AREA}}

\* the data set: images whose first k pixels (row-major) are lit
Images == {[i \in Inputs |-> IF i < k THEN ONE ELSE 0] : k \in 0 .. MNIST_AREA}

\* ------------------------------------------------------------- WeightHolder
\* WeightHolder::get_total_weight
get_total_weight == ONE

\* WeightHolder::incr_weight
incr_weight(total, weight) == FAdd(total, weight)

\* ------------------------------------------------------------ CompAENeuron
RECURSIVE SumWeights(_, _)
SumWeights(n, k) ==
    IF k = 0 THEN 0 ELSE FAdd(SumWeights(n, k - 1), weights[n][k - 1])

RECURSIVE SumWeightedEm(_, _)
SumWeightedEm(n, k) ==
    IF k = 0 THEN 0
    ELSE FAdd(SumWeightedEm(n, k - 1), FMul(weights[n][k - 1], measure[k - 1]))

\* MnistNeuron::compute_em
compute_em(n) == FDiv(SumWeightedEm(n, MNIST_AREA), FSqrt(SumWeights(n, MNIST_AREA)))

\* run_learning_phase: adjustment_size
adjustment_size(n) == FMul(FDiv(current_em[n], get_total_weight), learning_constant)

\* run_learning_phase: the weight after the update, before the floor
Unclamped(n, i) ==
    FAdd(weights[n][i], FMul(FMul(0 - ONE, current_reconstruction_error[i]), adjustment_size(n)))

\* run_learning_phase: if weight.get() < 0.0 { weight.replace(0.0) }
Floor(w) == IF FLt(w, 0) THEN 0 ELSE w

LearnedRow(n) == [i \in Inputs |-> Floor(Unclamped(n, i))]

\* ------------------------------------------------ perform_adjustment loops
\* a loop that runs each neuron's learning right after its prediction
AfterPredictInterleaved(n) == <<"learn", n>>

AfterPredict(n) == IF n < num_neurons THEN <<"predict", n + 1>> ELSE <<"cache", 0>>
AfterCache(i) == IF i < MNIST_AREA - 1 THEN <<"cache", i + 1>> ELSE <<"learn", 1>>
AfterLearn(n) == IF n < num_neurons THEN <<"learn", n + 1>> ELSE <<"idle", 0>>

\* -------------------------------------------------------------------- Init
Init ==
    /\ num_neurons \in 1 .. MaxNeurons
    /\ learning_constant \in LearningConstants
    /\ weights \in [1 .. num_neurons -> InitRows]
    /\ gen_weights = weights
    /\ current_em = [n \in 1 .. num_neurons |-> 0]
    /\ measure = [i \in Inputs |-> 0]
    /\ total_weighted_prediction = [i \in Inputs |-> 0]
    /\ current_reconstruction_error = [i \in Inputs |-> 0]
    /\ total_weights = 0
    /\ pc = "idle"
    /\ idx = 0
    /\ predicted = {}
    /\ cached = {}
    /\ learned = {}
    /\ loaded = {}
    /\ clears = 0
    /\ last_xy = NoXY
    /\ images = 0
    /\ calls = 0

\* ----------------------------------------------------------------- actions
\* the flat index load_val computes
input_index(x, y) == (MNIST_SIDE * y) + x

\* a clear triggered by the column alone
ClearsHolderOnColumn(x, y) == x = 0

\* whether load_val clears the WeightHolder
ClearsHolder(x, y) == <<x, y>> = <<0, 0>>

\* the policy that never clears the running sum
KeepsPrediction(old) == old

\* NeuronicInput::clear_total_weighted_prediction
clear_total_weighted_prediction(old) == 0

\* CompAENetwork::load_val
load_val(x, y, val) ==
    /\ pc = "idle"
    /\ last_xy' = <<x, y>>
    /\ IF input_index(x, y) \notin Inputs
       THEN \* inputs.get(input_index).unwrap() panics
            /\ pc' = "aborted"
            /\ UNCHANGED <<measure, total_weighted_prediction, total_weights, loaded, clears>>
       ELSE /\ measure' = [measure EXCEPT ![input_index(x, y)] = val]
            /\ total_weighted_prediction' =
                   [total_weighted_prediction EXCEPT
                        ![input_index(x, y)] = clear_total_weighted_prediction(@)]
            /\ loaded' = loaded \cup {input_index(x, y)}
            /\ IF ClearsHolder(x, y)
               THEN total_weights' = 0 /\ clears' = clears + 1
               ELSE UNCHANGED <<total_weights, clears>>
            /\ pc' = pc
    /\ UNCHANGED <<num_neurons, gen_weights, learning_constant, weights, current_em,
                   current_reconstruction_error, idx, predicted, cached, learned,
                   images>>

\* CompAENetwork::perform_adjustment, entry
perform_adjustment ==
    /\ pc = "idle"
    /\ pc' = "predict"
    /\ idx' = 1
    /\ predicted' = {}
    /\ cached' = {}
    /\ learned' = {}
    /\ UNCHANGED <<num_neurons, gen_weights, learning_constant, weights, current_em, measure,
                   total_weighted_prediction, current_reconstruction_error,
                   total_weights, loaded, clears, last_xy, images>>

\* a prediction phase that also rescales the neuron's weights by its activation
run_prediction_phase_rescaling(n) ==
    /\ pc = "predict"
    /\ idx = n
    /\ LET em == compute_em(n)
       IN /\ current_em' = [current_em EXCEPT ![n] = em]
          /\ total_weights' = incr_weight(total_weights, em)
          /\ total_weighted_prediction' =
                 [i \in Inputs |-> FAdd(total_weighted_prediction[i], FMul(em, weights[n][i]))]
          /\ weights' = [weights EXCEPT ![n] = [i \in Inputs |-> FMul(em, weights[n][i])]]
    /\ predicted' = predicted \cup {n}
    /\ pc' = AfterPredict(n)[1]
    /\ idx' = AfterPredict(n)[2]
    /\ UNCHANGED <<num_neurons, gen_weights, learning_constant, measure,
                   current_reconstruction_error, cached, learned, loaded,
                   clears, last_xy, images, calls>>

\* CompAENeuron::run_prediction_phase, called by the first loop
run_prediction_phase(n) ==
    /\ pc = "predict"
    /\ idx = n
    /\ LET em == compute_em(n)
       IN /\ current_em' = [current_em EXCEPT ![n] = em]
          /\ total_weights' = incr_weight(total_weights, em)
          /\ total_weighted_prediction' =
                 [i \in Inputs |-> FAdd(total_weighted_prediction[i], FMul(em, weights[n][i]))]
    /\ predicted' = predicted \cup {n}
    /\ pc' = AfterPredict(n)[1]
    /\ idx' = AfterPredict(n)[2]
    /\ UNCHANGED <<num_neurons, gen_weights, learning_constant, weights, measure,
                   current_reconstruction_error, cached, learned, loaded,
                   clears, last_xy, images, calls>>

\* NeuronicInput::cache_reconstruction_error, called by the second loop
cache_reconstruction_error(i) ==
    /\ pc = "cache"
    /\ idx = i
    /\ LET reconstruction == FDiv(total_weighted_prediction[i], get_total_weight)
       IN current_reconstruction_error' =
              [current_reconstruction_error EXCEPT ![i] = FSub(reconstruction, measure[i])]
    /\ cached' = cached \cup {i}
    /\ pc' = AfterCache(i)[1]
    /\ idx' = AfterCache(i)[2]
    /\ UNCHANGED <<num_neurons, gen_weights, learning_constant, weights, current_em, measure,
                   total_weighted_prediction, total_weights, predicted, learned,
                   loaded, clears, last_xy, images, calls>>

\* a learning phase that also takes the applied update out of the cached errors
run_learning_phase_recaching(n) ==
    /\ pc = "learn"
    /\ idx = n
    /\ weights' = [weights EXCEPT ![n] = LearnedRow(n)]
    /\ current_reconstruction_error' =
           [i \in Inputs |->
               FAdd(current_reconstruction_error[i], FSub(LearnedRow(n)[i], weights[n][i]))]
    /\ learned' = learned \cup {n}
    /\ pc' = AfterLearn(n)[1]
    /\ idx' = AfterLearn(n)[2]
    /\ IF AfterLearn(n)[1] = "idle"
       THEN images' = images + 1 /\ loaded' = {} /\ clears' = 0 /\ last_xy' = NoXY
       ELSE UNCHANGED <<images, loaded, clears, last_xy>>
    /\ UNCHANGED <<num_neurons, gen_weights, learning_constant, current_em, measure,
                   total_weighted_prediction, total_weights, predicted, cached, calls>>

\* CompAENeuron::run_learning_phase, called by the third loop
run_learning_phase(n) ==
    /\ pc = "learn"
    /\ idx = n
    /\ weights' = [weights EXCEPT ![n] = LearnedRow(n)]
    /\ learned' = learned \cup {n}
    /\ pc' = AfterLearn(n)[1]
    /\ idx' = AfterLearn(n)[2]
    /\ IF AfterLearn(n)[1] = "idle"
       THEN images' = images + 1 /\ loaded' = {} /\ clears' = 0 /\ last_xy' = NoXY
       ELSE UNCHANGED <<images, loaded, clears, last_xy>>
    /\ UNCHANGED <<num_neurons, gen_weights, learning_constant, current_em, measure,
                   total_weighted_prediction, current_reconstruction_error,
                   total_weights, predicted, cached, calls>>

\* ------------------------------------------------------ the training harness
\* take_metric: every pixel of the image once, (0,0) first
HarnessLoad ==
    /\ images < MaxImages
    /\ \E x \in 0 .. (MNIST_SIDE - 1), y \in 0 .. (MNIST_SIDE - 1), val \in PixelValues :
          /\ input_index(x, y) \notin loaded
          /\ (loaded = {} => <<x, y>> = <<0, 0>>)
          /\ \E img \in Images :
                /\ img[input_index(x, y)] = val
                /\ \A j \in loaded : img[j] = measure[j]
          /\ load_val(x, y, val)
    /\ UNCHANGED calls

\* take_metric: one perform_adjustment per loaded image
HarnessAdjust ==
    /\ loaded = Inputs
    /\ perform_adjustment
    /\ UNCHANGED calls

Sweep ==
    \/ \E n \in Neurons : run_prediction_phase(n)
    \/ \E i \in Inputs : cache_reconstruction_error(i)
    \/ \E n \in Neurons : run_learning_phase(n)

Next == HarnessLoad \/ HarnessAdjust \/ Sweep

Spec == Init /\ [][Next]_vars

\* --------------------------------------------------------- arbitrary caller
APILoad ==
    /\ calls < MaxCalls
    /\ calls' = calls + 1
    /\ \E x \in 0 .. MNIST_SIDE, y \in 0 .. MNIST_SIDE, val \in PixelValues :
          load_val(x, y, val)

APIAdjust ==
    /\ calls < MaxCalls
    /\ calls' = calls + 1
    /\ perform_adjustment

NextAPI == APILoad \/ APIAdjust \/ Sweep

SpecAPI == Init /\ [][NextAPI]_vars

\* ================================================================== claims
RECURSIVE SumEm(_)
SumEm(k) == IF k = 0 THEN 0 ELSE FAdd(SumEm(k - 1), current_em[k])

RECURSIVE SumContributions(_, _)
SumContributions(i, k) ==
    IF k = 0 THEN 0
    ELSE FAdd(SumContributions(i, k - 1), FMul(current_em[k], weights[k][i]))

AdjustmentBegins == pc = "predict" /\ idx = 1 /\ predicted = {}
LoadStep == pc = "idle" /\ pc' \in {"idle", "aborted"} /\ last_xy' # NoXY /\ loaded' # {}
OutOfRange(xy) == xy # NoXY /\ (xy[1] >= MNIST_SIDE \/ xy[2] >= MNIST_SIDE)

\* C1: within one perform_adjustment call every neuron's prediction phase has
\* completed before any input caches its error, and every input has cached its
\* error before any neuron's learning phase runs; no step of an earlier sweep
\* runs once a later sweep has started.
C1_SweepsOrdered ==
    /\ cached # {} => predicted = Neurons
    /\ learned # {} => (predicted = Neurons /\ cached = Inputs)
    /\ pc = "predict" => (cached = {} /\ learned = {})
    /\ pc = "cache" => learned = {}

C1_Witness ==
    /\ num_neurons > 1
    /\ pc = "learn"
    /\ idx = num_neurons
    /\ learned # {}
    /\ images = 1

\* C2: after any run_learning_phase call every weight of every neuron is a
\* number >= 0.
C2_WeightsNonNegative ==
    \A n \in Neurons : \A i \in Inputs : ~IsNaN(weights[n][i]) /\ weights[n][i] >= 0

\* C3: immediately after the prediction sweep, the WeightHolder's total accessor
\* get_total_weight returns the sum of all neurons' current_em.
C3_TotalIsSumOfEm ==
    (pc = "cache" /\ idx = 0 /\ 0 \in loaded) => get_total_weight = SumEm(num_neurons)

\* C4: 1 neuron, 4 inputs, weights 0.25 each, learning rate 0.1, measures
\* [1, 0, 0, 0]: after one training step current_em = 0.25, the WeightHolder total
\* is 0.25, every accumulated prediction is 0.0625, the reconstruction of input 0
\* is 0.25, its cached error is -0.75 and weight[0] is 0.325.
C4_Scenario ==
    /\ num_neurons = 1
    /\ MNIST_AREA = 4
    /\ gen_weights[1] = [i \in Inputs |-> ONE \div 4]
    /\ learning_constant = ONE \div 10
    /\ measure = [i \in Inputs |-> IF i = 0 THEN ONE ELSE 0]
    /\ images = 1
    /\ pc = "idle"
    /\ loaded = {}

C4_EndToEnd ==
    C4_Scenario =>
        /\ current_em[1] = ONE \div 4
        /\ get_total_weight = ONE \div 4
        /\ \A i \in Inputs : total_weighted_prediction[i] = ONE \div 16
        /\ FDiv(total_weighted_prediction[0], get_total_weight) = ONE \div 4
        /\ current_reconstruction_error[0] = 0 - ((3 * ONE) \div 4)
        /\ weights[1][0] = (325 * ONE) \div 1000

\* C5: load_val clears the WeightHolder exactly when (x, y) = (0, 0) and leaves
\* it alone otherwise; when the harness has loaded every pixel once, (0,0) first,
\* the holder was cleared exactly once and its total is 0 as perform_adjustment
\* begins.
C5_ClearedOncePerImage ==
    /\ [][LoadStep =>
            /\ total_weights' = (IF last_xy' = <<0, 0>> THEN 0 ELSE total_weights)
            /\ clears' = (IF last_xy' = <<0, 0>> THEN clears + 1 ELSE clears)]_vars
    /\ [](AdjustmentBegins => (clears = 1 /\ total_weights = 0))

C5_Witness ==
    /\ AdjustmentBegins
    /\ images = 1
    /\ clears = 1
    /\ total_weights = 0
    /\ \E n \in Neurons : current_em[n] > 0

\* C6: every load_val call with x or y outside [0, side) ends in the fatal
\* indexing fault and modifies no input's measure or accumulated prediction.
C6_OutOfRangeFaults ==
    [][(LoadStep /\ OutOfRange(last_xy')) =>
          /\ pc' = "aborted"
          /\ measure' = measure
          /\ total_weighted_prediction' = total_weighted_prediction]_vars

\* C7: load_val, run_prediction_phase and cache_reconstruction_error leave every
\* weight of every neuron unchanged, and every weight vector has one weight per
\* input.
C7_WeightsOnlyLearned ==
    /\ [][pc # "learn" => weights' = weights]_vars
    /\ [](\A n \in Neurons : DOMAIN weights[n] = Inputs)

C7_Witness ==
    /\ pc = "learn"
    /\ idx = 1
    /\ images = 1
    /\ weights # gen_weights
    /\ \E n \in Neurons : current_em[n] > 0

\* C9: when cache_reconstruction_error runs, each input's accumulated prediction
\* is the sum over the neurons of current_em * weight for this image alone: it was
\* 0 when the prediction sweep started and each neuron added to it once.
C9_PredictionOfThisImage ==
    /\ AdjustmentBegins => \A i \in Inputs : total_weighted_prediction[i] = 0
    /\ pc = "cache" =>
          \A i \in Inputs : total_weighted_prediction[i] = SumContributions(i, num_neurons)

C9_Witness ==
    /\ pc = "cache"
    /\ idx = MNIST_AREA - 1
    /\ images = 1
    /\ num_neurons > 1
    /\ \A i \in Inputs : total_weighted_prediction[i] > 0

\* C10: run_learning_phase of a neuron changes that neuron's weights only: the
\* other neurons' weights, every current_em, the inputs and the WeightHolder stay
\* as they were, and so does the row every other neuron's learning phase produces,
\* whichever neuron goes first.
C10_LearningIsLocal ==
    [][pc = "learn" =>
          /\ \A m \in Neurons \ {idx} :
                /\ weights'[m] = weights[m]
                /\ LearnedRow(m)' = LearnedRow(m)
          /\ current_em' = current_em
          /\ measure' = measure
          /\ total_weighted_prediction' = total_weighted_prediction
          /\ current_reconstruction_error' = current_reconstruction_error
          /\ total_weights' = total_weights]_vars

C10_Witness ==
    /\ pc = "learn"
    /\ idx = 2
    /\ learned = {1}
    /\ weights[1] # gen_weights[1]
    /\ weights[2] = gen_weights[2]
====
